---------------------------- MODULE Spec2Model ----------------------------
(***************************************************************************)
(* Model of github.com/opcoder0/capabilities: the capability query facade  *)
(* (capabilities.go: Init, IsSet, isSetFor) and the ABI decoder            *)
(* (internal: CapabilityV1, CapabilityV3 and their bit-test predicates).   *)
(*                                                                         *)
(* A uint32 word is modelled as the set of the positions of its 1 bits     *)
(* (0 = least significant), because the values 2^31 .. 2^32-1 are not      *)
(* model-checker integers.  Shl32 drops the bits shifted past position 31  *)
(* exactly as Go's << on a uint32 does, And32 is the bitwise AND.          *)
(***************************************************************************)
EXTENDS Integers, Sequences, FiniteSets

VARIABLES kernel,   \* the kernel: capability sets of every task, seccomp/LSM denial
          heap,     \* the Capabilities objects allocated so far, by address
          handle,   \* the *Capabilities each client holds (Nil before Init returns one)
          last,     \* the most recent step of the atomic specification and what it returned
          q,        \* the query each client has in flight (step-wise specification)
          bt        \* the decoder under test (decoder specification)

vars == <<kernel, heap, handle, last, q, bt>>

-----------------------------------------------------------------------------
(* Bounds of the model *)

\* the pids callers ask about are 0 .. MaxPid
MaxPid == 2
\* capability indices handed to the bit-test predicates are 0 .. MaxCapability
MaxCapability == 66

-----------------------------------------------------------------------------
(* Program constants *)

Effective == 0
Permitted == 1
Inheritable == 2
Bounding == 3
Ambient == 4

\* unix.LINUX_CAPABILITY_VERSION_1 = 0x19980330, _2 = 0x20071026, _3 = 0x20080522
LINUX_CAPABILITY_VERSION_1 == 429392688
LINUX_CAPABILITY_VERSION_2 == 537333798
LINUX_CAPABILITY_VERSION_3 == 537396514

\* the width of the uint32 words of unix.CapUserData, Bounds and Ambient
WordBits == 32

Nil == 0

ErrNil == "nil"
ErrProbe == "unable to probe capability version"
ErrVersion == "invalid capability version"
ErrErrno == "errno"
ErrSetV1 == "invalid capability set for capability v1"
ErrSetV3 == "invalid capability set for capability v2 or v3"
PanicUnsupported == "Unsupported Linux capability version"

-----------------------------------------------------------------------------
(* uint32 arithmetic *)

Zero32 == {}
One32 == {0}
Shl32(w, k) == {b + k : b \in w} \cap (0 .. (WordBits - 1))
And32(a, b) == a \cap b

-----------------------------------------------------------------------------
(* internal: the two layouts and their zero values *)

\* unix.CapUserHeader{Version uint32, Pid int32}; the pids of the model are
\* small, so int32(pid) keeps their value
CapUserHeader(version, pid) == [Version |-> version, Pid |-> pid]
CapUserData(e, p, i) == [Effective |-> e, Permitted |-> p, Inheritable |-> i]

ZeroHeader == CapUserHeader(0, 0)
ZeroData == CapUserData(Zero32, Zero32, Zero32)

ZeroCapabilityV1 == [Header |-> ZeroHeader, Data |-> ZeroData]

ZeroCapabilityV3 ==
    [Header |-> ZeroHeader, Datap |-> <<ZeroData, ZeroData>>,
     Bounds |-> <<Zero32, Zero32>>, Ambient |-> <<Zero32, Zero32>>]

(* internal: the V1 bit tests, (1<<uint(capability)) & word != 0 on uint32 *)

V1IsEffectiveSet(v1, capability) ==
    And32(Shl32(One32, capability), v1.Data.Effective) # Zero32

V1IsPermittedSet(v1, capability) ==
    And32(Shl32(One32, capability), v1.Data.Permitted) # Zero32

\* a faulty variant: the shift count taken modulo the word size
V1IsInheritableSetHigh(v1, capability) ==
    And32(Shl32(One32, capability % WordBits), v1.Data.Inheritable) # Zero32

V1IsInheritableSet(v1, capability) ==
    And32(Shl32(One32, capability), v1.Data.Inheritable) # Zero32

(* internal: the V3 bit tests.  Go's arrays are indexed from 0, the        *)
(* sequences here from 1, hence the i + 1.                                 *)

V3IsEffectiveSet(v3, capability) ==
    LET i == IF capability > 31 THEN 1 ELSE 0
        bitIndex == IF capability > 31 THEN capability % 32 ELSE capability
    IN  And32(Shl32(One32, bitIndex), v3.Datap[i + 1].Effective) # Zero32

V3IsPermittedSet(v3, capability) ==
    LET i == IF capability > 31 THEN 1 ELSE 0
        bitIndex == IF capability > 31 THEN capability % 32 ELSE capability
    IN  And32(Shl32(One32, bitIndex), v3.Datap[i + 1].Permitted) # Zero32

V3IsInheritableSet(v3, capability) ==
    LET i == IF capability > 31 THEN 1 ELSE 0
        bitIndex == IF capability > 31 THEN capability % 32 ELSE capability
    IN  And32(Shl32(One32, bitIndex), v3.Datap[i + 1].Inheritable) # Zero32

V3IsBoundingSet(v3, capability) ==
    LET i == IF capability > 31 THEN 1 ELSE 0
        bitIndex == IF capability > 31 THEN capability % 32 ELSE capability
    IN  And32(Shl32(One32, bitIndex), v3.Bounds[i + 1]) # Zero32

\* a faulty variant: the first word tested whatever the capability
V3IsAmbientSetFirstWord(v3, capability) ==
    LET bitIndex == IF capability > 31 THEN capability % 32 ELSE capability
    IN  And32(Shl32(One32, bitIndex), v3.Ambient[1]) # Zero32

V3IsAmbientSet(v3, capability) ==
    LET i == IF capability > 31 THEN 1 ELSE 0
        bitIndex == IF capability > 31 THEN capability % 32 ELSE capability
    IN  And32(Shl32(One32, bitIndex), v3.Ambient[i + 1]) # Zero32


-----------------------------------------------------------------------------
(* The kernel: capget(2) as the facade sees it *)

\* os.Getpid(): the id of the caller's process, which capget reads as the
\* id of that process's first thread (the thread group leader)
Getpid == 1

\* the ids capget may find a task for.  Capability sets are per thread:
\* 0 is the thread that makes the call, Getpid the leader of the caller's
\* process, which is another thread whenever the call is made from a thread
\* other than the first, and Getpid + 1 one other process.
Pids == {0, Getpid, Getpid + 1}

KnownVersions ==
    {LINUX_CAPABILITY_VERSION_1, LINUX_CAPABILITY_VERSION_2, LINUX_CAPABILITY_VERSION_3}

\* what a (simulated) kernel may answer to the version probe
ReportedVersions == KnownVersions \cup {0, 4}

KCaps(e, p, i, b, a) ==
    [Effective |-> e, Permitted |-> p, Inheritable |-> i, Bounds |-> b, Ambient |-> a]

\* capability 12 effective and permitted, capability 40 permitted and in the
\* bounding set (bounds = [0, 0x100])
KCapsA ==
    KCaps(<<{12}, {}>>, <<{12}, {8}>>, <<{}, {}>>, <<{}, {8}>>, <<{}, {}>>)

\* bits on both sides of each word boundary
KCapsB ==
    KCaps(<<{0, 2}, {0, 31}>>, <<{0, 2, 31}, {0, 31}>>, <<{31}, {0, 8}>>,
          <<{0, 2, 12, 31}, {0, 8, 31}>>, <<{31}, {0}>>)

KCapsStates == {KCapsA, KCapsB}

\* whether capget succeeds: not denied (seccomp, LSM), a version and a record
\* count the ABI knows, and a task that exists (k.caps holds the living ones)
CapgetOk(k, hdr, records) ==
    /\ ~k.deny
    /\ \/ hdr.Version = LINUX_CAPABILITY_VERSION_1 /\ records = 1
       \/ hdr.Version \in {LINUX_CAPABILITY_VERSION_2, LINUX_CAPABILITY_VERSION_3}
          /\ records = 2
    /\ hdr.Pid \in DOMAIN k.caps

\* the records capget copies out for task p: word 0, then word 1
CapgetData(k, p) ==
    [i \in 1 .. 2 |->
        CapUserData(k.caps[p].Effective[i], k.caps[p].Permitted[i],
                    k.caps[p].Inheritable[i])]

\* unix.Capget(&hdr, data) with data holding `records` records: the set of
\* its possible outcomes.  On success the records are filled and the header
\* is left alone.  On failure the data is left as it was, and the kernel
\* either leaves the header alone or writes the version it prefers
\* (_LINUX_CAPABILITY_VERSION_3) into the header's version field.
Capget(k, hdr, data, records) ==
    IF CapgetOk(k, hdr, records)
    THEN {[errno |-> FALSE, Header |-> hdr,
           Data |-> [i \in 1 .. records |-> CapgetData(k, hdr.Pid)[i]]]}
    ELSE {[errno |-> TRUE, Header |-> [hdr EXCEPT !.Version = v], Data |-> data] :
             v \in {hdr.Version, LINUX_CAPABILITY_VERSION_3}}

\* the log entry of one kernel call: the header as handed over, the size of
\* the data buffer, the outcome
KCall(hdr, records, errno) ==
    [Version |-> hdr.Version, Pid |-> hdr.Pid, records |-> records, errno |-> errno]

-----------------------------------------------------------------------------
(* capabilities.go *)

ZeroCapabilities == [v3 |-> ZeroCapabilityV3, v1 |-> ZeroCapabilityV1, Version |-> 0]

\* var capability Capabilities ... return &capability: a fresh object
\* a faulty variant: one package-level object handed out by every Init
NewObjectShared(h) == 1

NewObject(h) ==
    CHOOSE a \in 1 .. (Cardinality(DOMAIN h) + 1) :
        a \notin DOMAIN h /\ \A b \in 1 .. (a - 1) : b \in DOMAIN h

\* a faulty variant: the newest layout assumed for an unknown version
InitSwitchGuess(header) ==
    CASE header.Version = LINUX_CAPABILITY_VERSION_1 ->
            [panic |-> FALSE,
             c |-> [ZeroCapabilities EXCEPT !.Version = 1, !.v1.Header = header]]
      [] header.Version = LINUX_CAPABILITY_VERSION_2 ->
            [panic |-> FALSE,
             c |-> [ZeroCapabilities EXCEPT !.Version = 2, !.v3.Header = header]]
      [] OTHER ->
            [panic |-> FALSE,
             c |-> [ZeroCapabilities EXCEPT !.Version = 3, !.v3.Header = header]]

\* Init's switch on the probed header: the object built, or a panic
InitSwitch(header) ==
    CASE header.Version = LINUX_CAPABILITY_VERSION_1 ->
            [panic |-> FALSE,
             c |-> [ZeroCapabilities EXCEPT !.Version = 1, !.v1.Header = header]]
      [] header.Version = LINUX_CAPABILITY_VERSION_2 ->
            [panic |-> FALSE,
             c |-> [ZeroCapabilities EXCEPT !.Version = 2, !.v3.Header = header]]
      [] header.Version = LINUX_CAPABILITY_VERSION_3 ->
            [panic |-> FALSE,
             c |-> [ZeroCapabilities EXCEPT !.Version = 3, !.v3.Header = header]]
      [] OTHER ->
            [panic |-> TRUE, c |-> ZeroCapabilities]

\* Init(): the probe unix.Capget(&header, nil) on a zero header, to which the
\* kernel answers with `reported` in the header's version field
InitResult(k, reported) ==
    LET header == CapUserHeader(reported, 0)
        call == KCall(ZeroHeader, 0, k.deny)
    IN  IF k.deny
        THEN [instance |-> FALSE, panic |-> FALSE, err |-> ErrProbe,
              c |-> ZeroCapabilities, calls |-> <<call>>]
        ELSE IF InitSwitch(header).panic
        THEN [instance |-> FALSE, panic |-> TRUE, err |-> PanicUnsupported,
              c |-> ZeroCapabilities, calls |-> <<call>>]
        ELSE [instance |-> TRUE, panic |-> FALSE, err |-> ErrNil,
              c |-> InitSwitch(header).c, calls |-> <<call>>]

\* the result of a query: the object as the query leaves it, the two values
\* returned, the kernel calls made
QueryResult(c, ret, err, calls) == [c |-> c, ret |-> ret, err |-> err, calls |-> calls]

\* a faulty variant: (false, nil) for a set kind the V1 layout lacks
isSetForV1ReturnSilent(c1, capability, capSet, errno, calls) ==
        IF errno THEN QueryResult(c1, FALSE, ErrErrno, calls)
        ELSE CASE capSet = Effective ->
                    QueryResult(c1, V1IsEffectiveSet(c1.v1, capability), ErrNil, calls)
               [] capSet = Inheritable ->
                    QueryResult(c1, V1IsInheritableSet(c1.v1, capability), ErrNil, calls)
               [] capSet = Permitted ->
                    QueryResult(c1, V1IsPermittedSet(c1.v1, capability), ErrNil, calls)
               [] OTHER -> QueryResult(c1, FALSE, ErrNil, calls)

\* isSetFor, the V1 branch: what it returns once the kernel has answered
\* (lines 87-99)
isSetForV1Return(c1, capability, capSet, errno, calls) ==
        IF errno THEN QueryResult(c1, FALSE, ErrErrno, calls)
        ELSE CASE capSet = Effective ->
                    QueryResult(c1, V1IsEffectiveSet(c1.v1, capability), ErrNil, calls)
               [] capSet = Inheritable ->
                    QueryResult(c1, V1IsInheritableSet(c1.v1, capability), ErrNil, calls)
               [] capSet = Permitted ->
                    QueryResult(c1, V1IsPermittedSet(c1.v1, capability), ErrNil, calls)
               [] OTHER -> QueryResult(c1, FALSE, ErrSetV1, calls)

\* isSetFor, the V1 branch: header, kernel call (lines 83-86)
isSetForV1(c, k, pid, capability, capSet) ==
    LET hdr == CapUserHeader(LINUX_CAPABILITY_VERSION_1, pid)
    IN  {isSetForV1Return([c EXCEPT !.v1.Header = r.Header, !.v1.Data = r.Data[1]],
                          capability, capSet, r.errno, <<KCall(hdr, 1, r.errno)>>) :
            r \in Capget(k, hdr, <<c.v1.Data>>, 1)}

\* a faulty variant: the snapshot decoded and returned beside the error
isSetForV3ReturnPartial(c1, capability, capSet, errno, calls) ==
        CASE capSet = Effective ->
                QueryResult(c1, V3IsEffectiveSet(c1.v3, capability),
                            IF errno THEN ErrErrno ELSE ErrNil, calls)
          [] capSet = Permitted ->
                QueryResult(c1, V3IsPermittedSet(c1.v3, capability),
                            IF errno THEN ErrErrno ELSE ErrNil, calls)
          [] capSet = Inheritable ->
                QueryResult(c1, V3IsInheritableSet(c1.v3, capability),
                            IF errno THEN ErrErrno ELSE ErrNil, calls)
          [] capSet = Bounding ->
                QueryResult(c1, V3IsBoundingSet(c1.v3, capability),
                            IF errno THEN ErrErrno ELSE ErrNil, calls)
          [] capSet = Ambient ->
                QueryResult(c1, V3IsAmbientSet(c1.v3, capability),
                            IF errno THEN ErrErrno ELSE ErrNil, calls)
          [] OTHER -> QueryResult(c1, FALSE, ErrSetV3, calls)

\* isSetFor, the V2/V3 branch: what it returns once the kernel has answered
\* (lines 108-124)
isSetForV3Return(c1, capability, capSet, errno, calls) ==
        IF errno THEN QueryResult(c1, FALSE, ErrErrno, calls)
        ELSE CASE capSet = Effective ->
                    QueryResult(c1, V3IsEffectiveSet(c1.v3, capability), ErrNil, calls)
               [] capSet = Permitted ->
                    QueryResult(c1, V3IsPermittedSet(c1.v3, capability), ErrNil, calls)
               [] capSet = Inheritable ->
                    QueryResult(c1, V3IsInheritableSet(c1.v3, capability), ErrNil, calls)
               [] capSet = Bounding ->
                    QueryResult(c1, V3IsBoundingSet(c1.v3, capability), ErrNil, calls)
               [] capSet = Ambient ->
                    QueryResult(c1, V3IsAmbientSet(c1.v3, capability), ErrNil, calls)
               [] OTHER -> QueryResult(c1, FALSE, ErrSetV3, calls)

\* a faulty variant: the header's version field used as it was left
HeaderVersionV3Keep(c) == c.v3.Header.Version

\* the version constant isSetFor writes into the V3 header (lines 101-105)
HeaderVersionV3(c) ==
    IF c.Version = 2 THEN LINUX_CAPABILITY_VERSION_2
    ELSE IF c.Version = 3 THEN LINUX_CAPABILITY_VERSION_3
    ELSE c.v3.Header.Version

\* a faulty variant: the snapshot reused when the header already names the pid
isSetForV3Cached(c, k, pid, capability, capSet) ==
    LET hdr == CapUserHeader(HeaderVersionV3(c), pid)
    IN  IF c.v3.Header = hdr
        THEN {isSetForV3Return(c, capability, capSet, FALSE, <<KCall(hdr, 2, FALSE)>>)}
        ELSE {isSetForV3Return([c EXCEPT !.v3.Header = r.Header, !.v3.Datap = r.Data],
                               capability, capSet, r.errno, <<KCall(hdr, 2, r.errno)>>) :
                 r \in Capget(k, hdr, c.v3.Datap, 2)}

\* isSetFor, the V2/V3 branch: header, kernel call (lines 101-107)
isSetForV3(c, k, pid, capability, capSet) ==
    LET hdr == CapUserHeader(HeaderVersionV3(c), pid)
    IN  {isSetForV3Return([c EXCEPT !.v3.Header = r.Header, !.v3.Datap = r.Data],
                          capability, capSet, r.errno, <<KCall(hdr, 2, r.errno)>>) :
            r \in Capget(k, hdr, c.v3.Datap, 2)}

\* (c *Capabilities) isSetFor(pid, capability, capSet): the set of its
\* possible outcomes in kernel state k
isSetFor(c, k, pid, capability, capSet) ==
    IF c.Version < 1 \/ c.Version > 3
    THEN {QueryResult(c, FALSE, ErrVersion, <<>>)}
    ELSE IF c.Version = 1
    THEN isSetForV1(c, k, pid, capability, capSet)
    ELSE isSetForV3(c, k, pid, capability, capSet)

\* (c *Capabilities) IsSet(pid, capability, capSet)
IsSetResult(c, k, pid, capability, capSet) ==
    isSetFor(c, k, Getpid, capability, capSet)


-----------------------------------------------------------------------------
(* The atomic specification: every call of Init, IsSet and isSetFor is one step *)

\* the capability indices and set kinds the callers ask about
QueryCaps == {12, 40}
QuerySets == Effective .. (Ambient + 1)
QueryPids == 0 .. MaxPid

\* Capabilities{Version: v} built by a caller instead of Init
LiteralVersions == {0, 4}

KernelStates ==
    {k \in [caps : UNION {[L -> KCapsStates] : L \in SUBSET Pids}, deny : BOOLEAN] :
        {0, Getpid} \subseteq DOMAIN k.caps}

\* the record of a step: the operation, the client that called it, its
\* arguments (pid, capability, capSet), what the kernel reported to the probe
\* (reported), what came back (ret: the boolean of a query, or whether Init
\* returned an instance; err; panic), the kernel calls it made (calls), the
\* version field of the object's header as the query found it (hdrBefore),
\* and whether the query before it failed in the kernel (prevFailed)
NoStep ==
    [op |-> "none", client |-> 0, pid |-> 0, capability |-> 0, capSet |-> 0,
     reported |-> 0, ret |-> FALSE, err |-> ErrNil, panic |-> FALSE, calls |-> <<>>,
     hdrBefore |-> 0, prevFailed |-> FALSE]

\* the header a query on object c uses
HeaderOf(c) == IF c.Version = 1 THEN c.v1.Header ELSE c.v3.Header

QueryStep(op, t, pid, capability, capSet, c, r, prevFailed) ==
    [NoStep EXCEPT !.op = op, !.client = t, !.pid = pid, !.capability = capability,
                   !.capSet = capSet, !.ret = r.ret, !.err = r.err, !.calls = r.calls,
                   !.hdrBefore = HeaderOf(c).Version, !.prevFailed = prevFailed]

IsQuery(l) == l.op \in {"IsSet", "isSetFor"}

\* whether the most recent query ended with the kernel's error
Failed(l) == IF IsQuery(l) THEN l.err = ErrErrno ELSE l.prevFailed

Store(h, a, c) == [b \in DOMAIN h \cup {a} |-> IF b = a THEN c ELSE h[b]]

\* a client's query in flight: where it is in isSetFor (pc), its arguments,
\* what it returned, and the outcomes isSetFor has when it runs on its own in
\* the kernel state of this query's kernel call (alone)
NoQuery == [pc |-> "idle", pid |-> 0, capability |-> 0, capSet |-> 0,
            ret |-> FALSE, err |-> ErrNil, alone |-> {}]

Init(t) ==
    /\ handle[t] = Nil
    /\ \E reported \in ReportedVersions :
          LET r == InitResult(kernel, reported)
              a == NewObject(heap)
          IN  /\ heap' = IF r.instance THEN Store(heap, a, r.c) ELSE heap
              /\ handle' = [handle EXCEPT ![t] = IF r.instance THEN a ELSE Nil]
              /\ last' = [NoStep EXCEPT !.op = "Init", !.client = t,
                                         !.reported = reported, !.ret = r.instance,
                                         !.err = r.err, !.panic = r.panic,
                                         !.calls = r.calls, !.prevFailed = Failed(last)]
    /\ UNCHANGED <<kernel, q, bt>>

Literal(t) ==
    /\ handle[t] = Nil
    /\ \E v \in LiteralVersions :
          LET a == NewObject(heap)
          IN  /\ heap' = Store(heap, a, [ZeroCapabilities EXCEPT !.Version = v])
              /\ handle' = [handle EXCEPT ![t] = a]
              /\ last' = [NoStep EXCEPT !.op = "Literal", !.client = t, !.ret = TRUE,
                                         !.prevFailed = Failed(last)]
    /\ UNCHANGED <<kernel, q, bt>>

IsSet(t) ==
    /\ handle[t] # Nil
    /\ \E pid \in QueryPids, capability \in QueryCaps, capSet \in QuerySets :
       \E r \in IsSetResult(heap[handle[t]], kernel, pid, capability, capSet) :
              /\ heap' = [heap EXCEPT ![handle[t]] = r.c]
              /\ last' = QueryStep("IsSet", t, pid, capability, capSet,
                                        heap[handle[t]], r, Failed(last))
    /\ UNCHANGED <<kernel, handle, q, bt>>

IsSetFor(t) ==
    /\ handle[t] # Nil
    /\ \E pid \in QueryPids, capability \in QueryCaps, capSet \in QuerySets :
       \E r \in isSetFor(heap[handle[t]], kernel, pid, capability, capSet) :
              /\ heap' = [heap EXCEPT ![handle[t]] = r.c]
              /\ last' = QueryStep("isSetFor", t, pid, capability, capSet,
                                        heap[handle[t]], r, Failed(last))
    /\ UNCHANGED <<kernel, handle, q, bt>>

\* the environment: a process changes its capabilities, starts or exits, a
\* seccomp filter or LSM starts or stops denying capget
KernelMoves(S) ==
    /\ kernel' \in S \ {kernel}
    /\ \/ /\ kernel'.deny = kernel.deny
          /\ \E p \in Pids :
                \A o \in Pids \ {p} :
                    /\ (o \in DOMAIN kernel.caps) = (o \in DOMAIN kernel'.caps)
                    /\ o \in DOMAIN kernel.caps => kernel'.caps[o] = kernel.caps[o]
       \/ kernel'.caps = kernel.caps

KernelChange ==
    /\ KernelMoves(KernelStates)
    /\ last' = [NoStep EXCEPT !.op = "kernel", !.prevFailed = Failed(last)]
    /\ UNCHANGED <<heap, handle, q, bt>>

Clients == {1}

\* the decoder under test: a layout (1: CapabilityV1, 3: CapabilityV3) with
\* its structure filled in, the predicate to call (kind) and its argument,
\* and the predicate's result once it has been called (stage = "done")
NoBits == [stage |-> "none", layout |-> 0, kind |-> 0, capability |-> 0,
           v1 |-> ZeroCapabilityV1, v3 |-> ZeroCapabilityV3, result |-> FALSE]

InitState ==
    /\ kernel \in KernelStates
    /\ heap = <<>>
    /\ handle = [t \in Clients |-> Nil]
    /\ last = NoStep
    /\ q = <<>>
    /\ bt = NoBits

Next ==
    \/ \E t \in Clients : Init(t)
    \/ \E t \in Clients : Literal(t)
    \/ \E t \in Clients : IsSet(t)
    \/ \E t \in Clients : IsSetFor(t)
    \/ KernelChange

Spec == InitState /\ [][Next]_vars


-----------------------------------------------------------------------------
(* The step-wise specification: two clients, each with the instance its own *)
(* Init returned, run isSetFor statement by statement, interleaved with each *)
(* other and with the kernel's changes.  A client has one query in flight   *)
(* at a time (queries on one instance are serialized by its caller).        *)

ConcClients == {1, 2}
ConcReported == {0, LINUX_CAPABILITY_VERSION_1, LINUX_CAPABILITY_VERSION_3}
ConcPids == {Getpid, Getpid + 1}
ConcCaps == {12}
ConcSets == {Effective, Ambient}

\* the clients ask about processes by their pid; the sets of the threads
\* they run on are left as they are
ConcKernelStates == {k \in KernelStates : ~k.deny /\ k.caps[0] = KCapsA}

\* the two values each outcome of isSetFor returns
Returns(results) == {<<r.ret, r.err>> : r \in results}

InitConc(t) ==
    /\ handle[t] = Nil
    /\ \E reported \in ConcReported :
          LET r == InitResult(kernel, reported)
              a == NewObject(heap)
          IN  /\ heap' = IF r.instance THEN Store(heap, a, r.c) ELSE heap
              /\ handle' = [handle EXCEPT ![t] = IF r.instance THEN a ELSE Nil]
    /\ UNCHANGED <<kernel, last, q, bt>>

\* lines 80-84 and 101-105: the version check, the header's version field
Begin(t) ==
    /\ handle[t] # Nil
    /\ q[t].pc = "idle"
    /\ \E pid \in ConcPids, capability \in ConcCaps, capSet \in ConcSets :
          LET c == heap[handle[t]]
              query == [NoQuery EXCEPT !.pid = pid, !.capability = capability,
                                       !.capSet = capSet]
          IN  IF c.Version < 1 \/ c.Version > 3
              THEN /\ q' = [q EXCEPT ![t] =
                               [query EXCEPT !.pc = "done", !.ret = FALSE,
                                    !.err = ErrVersion,
                                    !.alone = Returns(isSetFor(c, kernel, pid,
                                                               capability, capSet))]]
                   /\ heap' = heap
              ELSE /\ q' = [q EXCEPT ![t] = [query EXCEPT !.pc = "pid"]]
                   /\ heap' = [heap EXCEPT ![handle[t]] =
                                  IF c.Version = 1
                                  THEN [c EXCEPT !.v1.Header.Version =
                                                     LINUX_CAPABILITY_VERSION_1]
                                  ELSE [c EXCEPT !.v3.Header.Version = HeaderVersionV3(c)]]
    /\ UNCHANGED <<kernel, handle, last, bt>>

\* lines 85 and 106: the header's pid field
WritePid(t) ==
    /\ q[t].pc = "pid"
    /\ LET c == heap[handle[t]]
       IN  heap' = [heap EXCEPT ![handle[t]] =
                       IF c.Version = 1 THEN [c EXCEPT !.v1.Header.Pid = q[t].pid]
                       ELSE [c EXCEPT !.v3.Header.Pid = q[t].pid]]
    /\ q' = [q EXCEPT ![t].pc = "call"]
    /\ UNCHANGED <<kernel, handle, last, bt>>

\* lines 86-89 and 107-110: the kernel call, and the return when it fails
Call(t) ==
    /\ q[t].pc = "call"
    /\ LET c == heap[handle[t]]
           alone == Returns(isSetFor(c, kernel, q[t].pid, q[t].capability, q[t].capSet))
       IN  IF c.Version = 1
           THEN \E r \in Capget(kernel, c.v1.Header, <<c.v1.Data>>, 1) :
                   LET c1 == [c EXCEPT !.v1.Header = r.Header, !.v1.Data = r.Data[1]]
                       res == isSetForV1Return(c1, q[t].capability, q[t].capSet,
                                               TRUE, <<>>)
                   IN  /\ heap' = [heap EXCEPT ![handle[t]] = c1]
                       /\ q' = [q EXCEPT ![t] =
                                   IF r.errno
                                   THEN [q[t] EXCEPT !.pc = "done", !.ret = res.ret,
                                                     !.err = res.err, !.alone = alone]
                                   ELSE [q[t] EXCEPT !.pc = "decode", !.alone = alone]]
           ELSE \E r \in Capget(kernel, c.v3.Header, c.v3.Datap, 2) :
                   LET c1 == [c EXCEPT !.v3.Header = r.Header, !.v3.Datap = r.Data]
                       res == isSetForV3Return(c1, q[t].capability, q[t].capSet,
                                               TRUE, <<>>)
                   IN  /\ heap' = [heap EXCEPT ![handle[t]] = c1]
                       /\ q' = [q EXCEPT ![t] =
                                   IF r.errno
                                   THEN [q[t] EXCEPT !.pc = "done", !.ret = res.ret,
                                                     !.err = res.err, !.alone = alone]
                                   ELSE [q[t] EXCEPT !.pc = "decode", !.alone = alone]]
    /\ UNCHANGED <<kernel, handle, last, bt>>

\* lines 90-99 and 111-124: the switch on capSet over the snapshot
Decode(t) ==
    /\ q[t].pc = "decode"
    /\ LET c == heap[handle[t]]
           res == IF c.Version = 1
                  THEN isSetForV1Return(c, q[t].capability, q[t].capSet, FALSE, <<>>)
                  ELSE isSetForV3Return(c, q[t].capability, q[t].capSet, FALSE, <<>>)
       IN  q' = [q EXCEPT ![t] = [q[t] EXCEPT !.pc = "done", !.ret = res.ret,
                                              !.err = res.err]]
    /\ UNCHANGED <<kernel, heap, handle, last, bt>>

\* the caller has the two values; the instance is free for its next query
Return(t) ==
    /\ q[t].pc = "done"
    /\ q' = [q EXCEPT ![t] = NoQuery]
    /\ UNCHANGED <<kernel, heap, handle, last, bt>>

KernelChangeConc ==
    /\ KernelMoves(ConcKernelStates)
    /\ UNCHANGED <<heap, handle, last, q, bt>>

InitStateConc ==
    /\ kernel \in ConcKernelStates
    /\ heap = <<>>
    /\ handle = [t \in ConcClients |-> Nil]
    /\ last = NoStep
    /\ q = [t \in ConcClients |-> NoQuery]
    /\ bt = NoBits

NextConc ==
    \/ \E t \in ConcClients : InitConc(t)
    \/ \E t \in ConcClients : Begin(t)
    \/ \E t \in ConcClients : WritePid(t)
    \/ \E t \in ConcClients : Call(t)
    \/ \E t \in ConcClients : Decode(t)
    \/ \E t \in ConcClients : Return(t)
    \/ KernelChangeConc

SpecConc == InitStateConc /\ [][NextConc]_vars

-----------------------------------------------------------------------------
(* The decoder specification: each bit-test predicate applied to constructed *)
(* structures.  The set under test holds the chosen words and every other   *)
(* set of the structure holds their complement, so that a predicate reading  *)
(* another set or another word answers differently.                          *)

AllOnes32 == 0 .. (WordBits - 1)
Not32(w) == AllOnes32 \ w

\* the words tried: none set, each single bit, 0b101, 0x100, all set
TestWords == {Zero32, {0, 2}, {8}, AllOnes32} \cup {{b} : b \in AllOnes32}

\* the two-word sets tried: exactly one bit over 0 .. 63, and a few others
TestPairs ==
    {<<{b}, Zero32>> : b \in AllOnes32} \cup {<<Zero32, {b}>> : b \in AllOnes32}
    \cup {<<Zero32, Zero32>>, <<{0, 2}, {8}>>, <<{12}, {12}>>, <<AllOnes32, AllOnes32>>}

TestCaps == 0 .. MaxCapability

BuildV1(kind, w) ==
    [Header |-> ZeroHeader,
     Data |-> CapUserData(IF kind = Effective THEN w ELSE Not32(w),
                          IF kind = Permitted THEN w ELSE Not32(w),
                          IF kind = Inheritable THEN w ELSE Not32(w))]

BuildV3(kind, ws) ==
    LET other == <<Not32(ws[1]), Not32(ws[2])>>
        of(k) == IF kind = k THEN ws ELSE other
    IN  [Header |-> ZeroHeader,
         Datap |-> [i \in 1 .. 2 |->
                       CapUserData(of(Effective)[i], of(Permitted)[i],
                                   of(Inheritable)[i])],
         Bounds |-> of(Bounding),
         Ambient |-> of(Ambient)]

BitsInputV1(kind, w, n) ==
    [NoBits EXCEPT !.stage = "input", !.layout = 1, !.kind = kind,
                   !.capability = n, !.v1 = BuildV1(kind, w)]

BitsInputV3(kind, ws, n) ==
    [NoBits EXCEPT !.stage = "input", !.layout = 3, !.kind = kind,
                   !.capability = n, !.v3 = BuildV3(kind, ws)]

Tested(layout, kind, result) ==
    /\ bt.stage = "input"
    /\ bt.layout = layout
    /\ bt.kind = kind
    /\ bt' = [bt EXCEPT !.stage = "done", !.result = result]
    /\ UNCHANGED <<kernel, heap, handle, last, q>>

IsEffectiveSetV1 == Tested(1, Effective, V1IsEffectiveSet(bt.v1, bt.capability))
IsPermittedSetV1 == Tested(1, Permitted, V1IsPermittedSet(bt.v1, bt.capability))
IsInheritableSetV1 == Tested(1, Inheritable, V1IsInheritableSet(bt.v1, bt.capability))
IsEffectiveSetV3 == Tested(3, Effective, V3IsEffectiveSet(bt.v3, bt.capability))
IsPermittedSetV3 == Tested(3, Permitted, V3IsPermittedSet(bt.v3, bt.capability))
IsInheritableSetV3 == Tested(3, Inheritable, V3IsInheritableSet(bt.v3, bt.capability))
IsBoundingSetV3 == Tested(3, Bounding, V3IsBoundingSet(bt.v3, bt.capability))
IsAmbientSetV3 == Tested(3, Ambient, V3IsAmbientSet(bt.v3, bt.capability))

InitStateBits ==
    /\ kernel = [caps |-> [p \in {0, Getpid} |-> KCapsA], deny |-> FALSE]
    /\ heap = <<>>
    /\ handle = <<>>
    /\ last = NoStep
    /\ q = <<>>
    /\ \E n \in TestCaps :
          \/ \E kind \in {Effective, Permitted, Inheritable}, w \in TestWords :
                bt = BitsInputV1(kind, w, n)
          \/ \E kind \in Effective .. Ambient, ws \in TestPairs :
                bt = BitsInputV3(kind, ws, n)

NextBits ==
    \/ IsEffectiveSetV1
    \/ IsPermittedSetV1
    \/ IsInheritableSetV1
    \/ IsEffectiveSetV3
    \/ IsPermittedSetV3
    \/ IsInheritableSetV3
    \/ IsBoundingSetV3
    \/ IsAmbientSetV3

SpecBits == InitStateBits /\ [][NextBits]_vars

-----------------------------------------------------------------------------
(* What the claims are stated with *)

\* the object the step's client holds
LastObject == heap[handle[last.client]]

\* a query that went as far as the kernel
Called(l) == IsQuery(l) /\ Len(l.calls) > 0

\* bit n (0 .. 63) of a two-word set: bit n mod 32 of word 0 or 1
Bit64(words, n) == (n % 32) \in words[(IF n > 31 THEN 1 ELSE 0) + 1]

\* the two-word set of kind capSet in a process's kernel state
KernelSet(caps, capSet) ==
    CASE capSet = Effective -> caps.Effective
      [] capSet = Permitted -> caps.Permitted
      [] capSet = Inheritable -> caps.Inheritable
      [] capSet = Bounding -> caps.Bounds
      [] capSet = Ambient -> caps.Ambient

\* what an ABI of the given version number shows of capability n of a set:
\* version 1 carries the first word only
KernelBit(version, caps, capSet, n) ==
    IF version = 1 THEN n < 32 /\ n \in KernelSet(caps, capSet)[1]
    ELSE Bit64(KernelSet(caps, capSet), n)

\* the ABI constant of a version number
VersionConstant(n) ==
    CASE n = 1 -> LINUX_CAPABILITY_VERSION_1
      [] n = 2 -> LINUX_CAPABILITY_VERSION_2
      [] n = 3 -> LINUX_CAPABILITY_VERSION_3

\* the pid isSetFor is called with: its caller's, or the one IsSet passes
QueriedPid(l) == IF l.op = "IsSet" THEN Getpid ELSE l.pid

\* C1: on every IsSet(pid, capability, capSet) that reaches the kernel, the
\* pid field of the header handed to the kernel is the pid the caller
\* supplied.
C1_HeaderPidIsArgument ==
    (last.op = "IsSet" /\ Called(last))
        => last.calls[1].Pid = last.pid

\* C2: on a version 2 or 3 instance, a Bounding or Ambient query whose
\* kernel call succeeds returns (b, nil) with b the bit of the capability in
\* the bounding (ambient) set of the process the kernel was asked about.
C2_BoundingAmbientAnswer ==
    (/\ Called(last)
     /\ LastObject.Version \in {2, 3}
     /\ last.capSet \in {Bounding, Ambient}
     /\ ~last.calls[1].errno)
        => /\ last.err = ErrNil
           /\ last.ret = Bit64(KernelSet(kernel.caps[last.calls[1].Pid],
                                         last.capSet), last.capability)

\* C3 as stated: on a version 1 instance every Bounding or Ambient query
\* returns false with the invalid-set error, whether or not the kernel call
\* succeeds.
C3_V1AlwaysInvalidSet ==
    (/\ IsQuery(last)
     /\ LastObject.Version = 1
     /\ last.capSet \in {Bounding, Ambient})
        => last.ret = FALSE /\ last.err = ErrSetV1

\* C3 as amended: on a version 1 instance every Bounding or Ambient query
\* returns false with an error, never (false, nil): the invalid-set error
\* when the kernel call succeeded, the kernel's error when it failed.
C3_V1InvalidSetOrKernelError ==
    (/\ IsQuery(last)
     /\ LastObject.Version = 1
     /\ last.capSet \in {Bounding, Ambient})
        => /\ last.ret = FALSE
           /\ Len(last.calls) = 1
           /\ last.err = IF last.calls[1].errno THEN ErrErrno ELSE ErrSetV1

C3_Witness ==
    /\ last.op = "IsSet"
    /\ LastObject.Version = 1
    /\ last.capSet = Bounding
    /\ last.capability = 40
    /\ last.err = ErrSetV1
    /\ Bit64(kernel.caps[Getpid].Bounds, 40)

\* C4: a query (any version field, pid, capability, set kind) that returns
\* an error returns false with it; it makes at most one kernel call, and a
\* failed kernel call is returned as that call's error.
C4_ErrorMeansFalse ==
    IsQuery(last)
        => /\ last.err # ErrNil => last.ret = FALSE
           /\ Len(last.calls) <= 1
           /\ (Called(last) /\ last.calls[1].errno) => last.err = ErrErrno
           /\ LastObject.Version \notin 1 .. 3 => last.err = ErrVersion /\ last.calls = <<>>
           /\ (last.capSet \notin Effective .. Ambient) => last.err # ErrNil

\* a failed query on an object whose snapshot, left by an earlier query,
\* has the capability set
C4_Witness ==
    /\ IsQuery(last)
    /\ last.err = ErrErrno
    /\ last.ret = FALSE
    /\ last.capSet = Effective
    /\ LastObject.Version = 3
    /\ V3IsEffectiveSet(LastObject.v3, last.capability)

\* C5: Init returns no instance and the probe error when the probe fails,
\* panics and returns no instance when the kernel reports a version that is
\* none of the three known ones, and otherwise returns an instance whose
\* Version is the number (1, 2, 3) of the version the kernel reported.
C5_InitNeverGuesses ==
    last.op = "Init"
        => /\ Len(last.calls) = 1
           /\ last.calls[1].records = 0
           /\ IF last.calls[1].errno
              THEN handle[last.client] = Nil /\ last.err = ErrProbe /\ ~last.panic
              ELSE IF last.reported \notin KnownVersions
              THEN handle[last.client] = Nil /\ last.panic
              ELSE /\ handle[last.client] # Nil
                   /\ last.err = ErrNil /\ ~last.panic
                   /\ LastObject.Version \in 1 .. 3
                   /\ VersionConstant(LastObject.Version) = last.reported

C5_Witness ==
    /\ last.op = "Init"
    /\ handle[last.client] # Nil
    /\ last.reported = LINUX_CAPABILITY_VERSION_2
    /\ LastObject.Version = 2

\* C8: after any history, an Effective, Permitted or Inheritable query on
\* an instance of version 1, 2 or 3 asks the kernel once; if the call
\* succeeds it returns (b, nil) with b the bit the kernel holds now for the
\* pid isSetFor was called with, as the instance's ABI shows it; if the call
\* fails it returns (false, error), whatever the snapshot holds.  The call
\* fails only for the kernel's reasons, never because an earlier query failed.
C8_NoStaleAnswer ==
    (/\ IsQuery(last)
     /\ LastObject.Version \in 1 .. 3
     /\ last.capSet \in {Effective, Permitted, Inheritable})
        => /\ Len(last.calls) = 1
           /\ last.calls[1].errno =
                 (kernel.deny \/ QueriedPid(last) \notin DOMAIN kernel.caps)
           /\ IF last.calls[1].errno
              THEN last.ret = FALSE /\ last.err = ErrErrno
              ELSE /\ last.err = ErrNil
                   /\ last.ret = KernelBit(LastObject.Version,
                                           kernel.caps[QueriedPid(last)],
                                           last.capSet, last.capability)

\* a query that succeeds with true right after a query that failed
C8_Witness ==
    /\ IsQuery(last)
    /\ last.prevFailed
    /\ last.capSet = Permitted
    /\ last.err = ErrNil
    /\ last.ret = TRUE

\* C9: no step removes an object or changes its Version or takes a client's
\* instance away, and a query on an instance of version 1, 2 or 3 hands the
\* kernel a header whose version field is the ABI constant of that Version,
\* whatever the field held before, with one record for version 1 and two for
\* versions 2 and 3.
C9_VersionFixed ==
    [][/\ \A a \in DOMAIN heap :
             a \in DOMAIN heap' /\ heap'[a].Version = heap[a].Version
       /\ \A t \in DOMAIN handle : handle[t] # Nil => handle'[t] = handle[t]
       /\ (last' # last /\ IsQuery(last') /\ heap[handle[last'.client]].Version \in 1 .. 3)
             => /\ Len(last'.calls) = 1
                /\ last'.calls[1].Version =
                       VersionConstant(heap[handle[last'.client]].Version)
                /\ last'.calls[1].records =
                       IF heap[handle[last'.client]].Version = 1 THEN 1 ELSE 2]_vars

\* a query on a version 2 instance that found the header's version field
\* overwritten by the kernel and succeeded
C9_Witness ==
    /\ IsQuery(last)
    /\ LastObject.Version = 2
    /\ last.hdrBefore = LINUX_CAPABILITY_VERSION_3
    /\ last.calls[1].Version = LINUX_CAPABILITY_VERSION_2
    /\ last.err = ErrNil


\* C10: the instances two clients got from their own Init calls are distinct
\* objects, and under every interleaving of the statements of their queries
\* and of the kernel's changes each finished query has returned what isSetFor
\* returns when it runs on its own in the kernel state of that query's kernel
\* call.
C10_DistinctInstancesIndependent ==
    /\ \A t1, t2 \in DOMAIN handle :
          (t1 # t2 /\ handle[t1] # Nil) => handle[t2] # handle[t1]
    /\ \A t \in DOMAIN q :
          q[t].pc = "done" => <<q[t].ret, q[t].err>> \in q[t].alone

\* both clients have queried different processes at the same time and got
\* different answers
C10_Witness ==
    /\ q[1].pc = "done" /\ q[2].pc = "done"
    /\ q[1].pid # q[2].pid
    /\ q[1].err = ErrNil /\ q[2].err = ErrNil
    /\ q[1].ret /\ ~q[2].ret


\* the set a predicate of the given kind reads
TestedPair ==
    CASE bt.kind = Effective -> <<bt.v3.Datap[1].Effective, bt.v3.Datap[2].Effective>>
      [] bt.kind = Permitted -> <<bt.v3.Datap[1].Permitted, bt.v3.Datap[2].Permitted>>
      [] bt.kind = Inheritable -> <<bt.v3.Datap[1].Inheritable, bt.v3.Datap[2].Inheritable>>
      [] bt.kind = Bounding -> bt.v3.Bounds
      [] bt.kind = Ambient -> bt.v3.Ambient

TestedWord ==
    CASE bt.kind = Effective -> bt.v1.Data.Effective
      [] bt.kind = Permitted -> bt.v1.Data.Permitted
      [] bt.kind = Inheritable -> bt.v1.Data.Inheritable

\* the two-word set with bit p (0 .. 63) alone
OneBit(p) == IF p < 32 THEN <<{p}, Zero32>> ELSE <<Zero32, {p - 32}>>

\* C6: each of the five V3 predicates, for a capability n in 0 .. 63, is
\* true exactly when bit n mod 32 of word (1 if n > 31 else 0) of its own set
\* is 1: never with both words 0, and with one bit p alone exactly for n = p
\* (31: bit 31 of the first word, 32: bit 0 of the second, 63: bit 31 of
\* the second).
C6_V3BitTest ==
    (bt.stage = "done" /\ bt.layout = 3 /\ bt.capability \in 0 .. 63)
        => /\ bt.result = Bit64(TestedPair, bt.capability)
           /\ TestedPair = <<Zero32, Zero32>> => ~bt.result
           /\ \A p \in 0 .. 63 :
                 TestedPair = OneBit(p) => (bt.result = (bt.capability = p))
           /\ (bt.capability = 31 => bt.result = (31 \in TestedPair[1]))
           /\ (bt.capability = 32 => bt.result = (0 \in TestedPair[2]))
           /\ (bt.capability = 63 => bt.result = (31 \in TestedPair[2]))

\* capability 32 found in a bounding set whose only bit is bit 0 of the
\* second word
C6_Witness ==
    /\ bt.stage = "done" /\ bt.layout = 3
    /\ bt.kind = Bounding
    /\ bt.capability = 32
    /\ bt.v3.Bounds = <<Zero32, {0}>>
    /\ bt.result

\* C7: each of the three V1 predicates on a word w is true exactly when the
\* capability n is in 0 .. 31 and bit n of w is 1; for n >= 32 it is false
\* whatever w is.
C7_V1BitTest ==
    (bt.stage = "done" /\ bt.layout = 1)
        => /\ bt.result = (bt.capability \in 0 .. 31 /\ bt.capability \in TestedWord)
           /\ bt.capability >= 32 => ~bt.result
           /\ TestedWord = {0, 2} => (bt.result = (bt.capability \in {0, 2}))

\* capability 32 tested against a word with every bit set: false
C7_Witness ==
    /\ bt.stage = "done" /\ bt.layout = 1
    /\ bt.kind = Inheritable
    /\ bt.capability = 32
    /\ bt.v1.Data.Inheritable = AllOnes32
    /\ ~bt.result

=============================================================================
